---------------------------- MODULE Spec2Model ----------------------------
(***************************************************************************)
(* Model of the Code Optimizer VS Code extension (tbega/code-optimizer):   *)
(* the line-oriented analysis simulateRustAnalysis, and analyzeDocument    *)
(* with the commands and listeners that call it.                           *)
(*                                                                         *)
(* The messages the extension shows (showInformationMessage and the like)  *)
(* are handed to the editor and read back by nothing here; they are not    *)
(* part of the state.  The showConfig command and analyzeFile without an   *)
(* active editor only show a message, and so change nothing.               *)
(*                                                                         *)
(* Strings are sequences of one-character strings, so that includes,       *)
(* split, trim and replace are computed character by character.            *)
(* Confidences and thresholds are in hundredths (0.8 is 80): every value   *)
(* the code compares is a decimal with at most two digits, on which the    *)
(* order of IEEE doubles and the order of the hundredths agree.            *)
(***************************************************************************)
EXTENDS Integers, Sequences, FiniteSets, TLC

VARIABLES
    document,        \* SpecAnalysis: the document handed to the analysis
    config,          \* workspace configuration section 'codeOptimizer'
    optimizations,   \* SpecAnalysis: the list simulateRustAnalysis returned
    reported,        \* SpecAnalysis: the number analyzeDocument returned
    phase,           \* SpecAnalysis: "idle" before the call, "analyzed" after
    documents,             \* Spec: uri -> the workspace's TextDocument
    diagnosticCollection,  \* Spec: uri -> the diagnostics set for it
    microtasks,            \* Spec: analyzeDocument calls suspended at their await, oldest first
    returned,              \* Spec: uri -> what the last finished analyzeDocument call on it returned
    latest,                \* Spec: uri -> <<list>> of the most recently started analysis, <<>> if none
    workspaceState,        \* Spec: analyzeWorkspace command: "idle", "running", "awaiting"
    files,                 \* Spec: analyzeWorkspace: the files not yet analysed
    totalOptimizations     \* Spec: analyzeWorkspace: the running total

analysisVars == <<document, optimizations, reported, phase>>

extensionVars ==
    <<documents, diagnosticCollection, microtasks, returned, latest,
      workspaceState, files, totalOptimizations>>

vars == <<analysisVars, config, extensionVars>>

\* ------------------------------------------------------------------ bounds

\* Largest number of lines of an analysed text.
MaxLines == 2

\* Largest number of analyzeDocument calls suspended at once.
MaxPending == 2

\* ------------------------------------------------- JavaScript string library

NL == "\n"

WhiteSpace == {" ", "\t", "\n", "\r"}

\* String.prototype.includes
Includes(s, p) ==
    \E i \in 1..(Len(s) - Len(p) + 1) : SubSeq(s, i, i + Len(p) - 1) = p

\* String.prototype.indexOf, 1-based; 0 when p does not occur
IndexOf(s, p) ==
    IF Includes(s, p)
    THEN CHOOSE i \in 1..(Len(s) - Len(p) + 1) :
            /\ SubSeq(s, i, i + Len(p) - 1) = p
            /\ \A j \in 1..(i - 1) : SubSeq(s, j, j + Len(p) - 1) # p
    ELSE 0

\* String.prototype.replace with a string pattern: the first occurrence only
Replace(s, p, r) ==
    LET i == IndexOf(s, p)
    IN  IF i = 0 THEN s
        ELSE SubSeq(s, 1, i - 1) \o r \o SubSeq(s, i + Len(p), Len(s))

RECURSIVE TrimStart(_)
TrimStart(s) ==
    IF s # <<>> /\ Head(s) \in WhiteSpace THEN TrimStart(Tail(s)) ELSE s

RECURSIVE TrimEnd(_)
TrimEnd(s) ==
    IF s # <<>> /\ s[Len(s)] \in WhiteSpace
    THEN TrimEnd(SubSeq(s, 1, Len(s) - 1))
    ELSE s

\* String.prototype.trim
Trim(s) == TrimEnd(TrimStart(s))

\* String.prototype.split with a one-character separator
RECURSIVE Split(_, _)
Split(s, sep) ==
    IF \A k \in 1..Len(s) : s[k] # sep
    THEN <<s>>
    ELSE LET k == CHOOSE k \in 1..Len(s) :
                     s[k] = sep /\ \A j \in 1..(k - 1) : s[j] # sep
         IN  <<SubSeq(s, 1, k - 1)>> \o Split(SubSeq(s, k + 1, Len(s)), sep)

\* ------------------------------------------------------ the rules' literals

LetPattern == <<"l", "e", "t", " ">>
EqualsPattern == <<"=">>
LetIPattern == <<"l", "e", "t", " ", "i">>
ConstText == <<"c", "o", "n", "s", "t", " ">>
ConsoleLogPattern == <<"c", "o", "n", "s", "o", "l", "e", ".", "l", "o", "g", "(">>
ConsoleLogCommented ==
    <<"/", "/", " ", "c", "o", "n", "s", "o", "l", "e", ".", "l", "o", "g", "(">>
FormatPattern == <<".", "f", "o", "r", "m", "a", "t", "(">>
FStringText == <<"f", "\"">>
PrintPattern == <<"p", "r", "i", "n", "t", "(">>
PrintCommented == <<"#", " ", "p", "r", "i", "n", "t", "(">>

\* confidence of a use-const suggestion raised past 1 by an unclamped adjustment
UseConstConfidenceUnclamped == 80 + 30
UseConstConfidence == 80
NoConsoleConfidence == 90
FStringConfidence == 70
PrintConfidence == 80

\* a default threshold set above the least confident rule
DefaultMinConfidenceHigh == 60 + 15
DefaultMinConfidence == 60

RuleIds == {"use-const", "no-console", "use-f-strings", "no-print-debug"}

\* ------------------------------------------------------------ configuration

\* WorkspaceConfiguration.get(key, defaultValue): a configuration is a function
\* from the keys that are set to their values
ConfigGet(cfg, key, defaultValue) ==
    IF key \in DOMAIN cfg THEN cfg[key] ELSE defaultValue

\* --------------------------------------------------------------- isSupported

SupportedLanguages == {"javascript", "typescript", "python", "rust"}

isSupported(languageId) == languageId \in SupportedLanguages

\* ------------------------------------------------------ simulateRustAnalysis

\* the guard written  a === 'javascript' || 'typescript', which is always truthy
IsJavaScriptAlways(languageId) == TRUE
IsJavaScript(languageId) ==
    languageId = "javascript" \/ languageId = "typescript"

IsPython(languageId) == languageId = "python"

\* line_number: index (0-based) pushed without the + 1
LineNumberZeroBased(index) == index
LineNumber(index) == index + 1

UseConstMatches(line) ==
    /\ Includes(line, LetPattern)
    /\ Includes(line, EqualsPattern)
    /\ ~Includes(line, LetIPattern)

NoConsoleMatches(line) == Includes(line, ConsoleLogPattern)

UseFStringsMatches(line) == Includes(line, FormatPattern)

NoPrintDebugMatches(line) == Includes(line, PrintPattern)

UseConstOptimization(line, index) ==
    [rule_name |-> "use-const", language |-> "JavaScript",
     line_number |-> LineNumber(index), original_code |-> Trim(line),
     suggested_code |-> Replace(line, LetPattern, ConstText),
     explanation |-> "Use 'const' for variables that never change",
     severity |-> "Info", confidence |-> UseConstConfidence]

NoConsoleOptimization(line, index) ==
    [rule_name |-> "no-console", language |-> "JavaScript",
     line_number |-> LineNumber(index), original_code |-> Trim(line),
     suggested_code |-> Replace(line, ConsoleLogPattern, ConsoleLogCommented),
     explanation |-> "Remove console.log statements in production code",
     severity |-> "Warning", confidence |-> NoConsoleConfidence]

UseFStringsOptimization(line, index) ==
    [rule_name |-> "use-f-strings", language |-> "Python",
     line_number |-> LineNumber(index), original_code |-> Trim(line),
     suggested_code |-> Replace(line, FormatPattern, FStringText),
     explanation |-> "Use f-strings instead of .format() for better performance",
     severity |-> "Info", confidence |-> FStringConfidence]

NoPrintDebugOptimization(line, index) ==
    [rule_name |-> "no-print-debug", language |-> "Python",
     line_number |-> LineNumber(index), original_code |-> Trim(line),
     suggested_code |-> Replace(line, PrintPattern, PrintCommented),
     explanation |-> "Remove print statements in production code",
     severity |-> "Warning", confidence |-> PrintConfidence]

\* the JavaScript block pushing no-console before use-const
JavaScriptOptimizationsSwapped(line, index) ==
    (IF NoConsoleMatches(line) THEN <<NoConsoleOptimization(line, index)>> ELSE <<>>)
    \o (IF UseConstMatches(line) THEN <<UseConstOptimization(line, index)>> ELSE <<>>)
\* what the JavaScript block pushes for one line, in push order
JavaScriptOptimizations(line, index) ==
    (IF UseConstMatches(line) THEN <<UseConstOptimization(line, index)>> ELSE <<>>)
    \o (IF NoConsoleMatches(line) THEN <<NoConsoleOptimization(line, index)>> ELSE <<>>)

\* what the Python block pushes for one line, in push order
PythonOptimizations(line, index) ==
    (IF UseFStringsMatches(line) THEN <<UseFStringsOptimization(line, index)>> ELSE <<>>)
    \o (IF NoPrintDebugMatches(line) THEN <<NoPrintDebugOptimization(line, index)>> ELSE <<>>)

\* the body of the forEach callback: what one line appends to optimizations
LineOptimizations(languageId, line, index) ==
    (IF IsJavaScript(languageId) THEN JavaScriptOptimizations(line, index) ELSE <<>>)
    \o (IF IsPython(languageId) THEN PythonOptimizations(line, index) ELSE <<>>)

\* lines.forEach((line, index) => ...): the array after lines index.. are visited
RECURSIVE ForEachLine(_, _, _)
ForEachLine(languageId, lines, index) ==
    IF index >= Len(lines) THEN <<>>
    ELSE LineOptimizations(languageId, lines[index + 1], index)
         \o ForEachLine(languageId, lines, index + 1)

\* the optimizations array before the final filter
Candidates(doc) == ForEachLine(doc.languageId, Split(doc.text, NL), 0)

\* the filter keeping only confidences strictly above the threshold
PassesThresholdStrict(confidence, minConfidence) == confidence > minConfidence
PassesThreshold(confidence, minConfidence) == confidence >= minConfidence

minimumConfidence(cfg) == ConfigGet(cfg, "minimumConfidence", DefaultMinConfidence)

simulateRustAnalysis(doc, cfg) ==
    LET minConfidence == minimumConfidence(cfg)
    IN  SelectSeq(Candidates(doc),
                  LAMBDA opt : PassesThreshold(opt.confidence, minConfidence))

\* --------------------------------------------------------------- the inputs

\* let userName = "John";
LetLine ==
    <<"l", "e", "t", " ", "u", "s", "e", "r", "N", "a", "m", "e", " ", "=", " ",
      "\"", "J", "o", "h", "n", "\"", ";">>
\* userName = "Bob";
ReassignLine ==
    <<"u", "s", "e", "r", "N", "a", "m", "e", " ", "=", " ", "\"", "B", "o", "b",
      "\"", ";">>
\* for (let i = 0; i < 3; i++) {}
LoopLine ==
    <<"f", "o", "r", " ", "(", "l", "e", "t", " ", "i", " ", "=", " ", "0", ";",
      " ", "i", " ", "<", " ", "3", ";", " ", "i", "+", "+", ")", " ", "{", "}">>
\* console.log("Debug:", userName);
ConsoleLine ==
    <<"c", "o", "n", "s", "o", "l", "e", ".", "l", "o", "g", "(", "\"", "D", "e",
      "b", "u", "g", ":", "\"", ",", " ", "u", "s", "e", "r", "N", "a", "m", "e",
      ")", ";">>
\* two spaces, let y = console.log(1); and a trailing space
IndentedLine ==
    <<" ", " ", "l", "e", "t", " ", "y", " ", "=", " ", "c", "o", "n", "s", "o",
      "l", "e", ".", "l", "o", "g", "(", "1", ")", ";", " ">>
\* msg = 'hi {}'.format(name)
FormatLine ==
    <<"m", "s", "g", " ", "=", " ", "'", "h", "i", " ", "{", "}", "'", ".", "f",
      "o", "r", "m", "a", "t", "(", "n", "a", "m", "e", ")">>
\* print(msg)
PrintLine == <<"p", "r", "i", "n", "t", "(", "m", "s", "g", ")">>
\* a tab, then print('{}'.format(x))
TabbedLine ==
    <<"\t", "p", "r", "i", "n", "t", "(", "'", "{", "}", "'", ".", "f", "o", "r",
      "m", "a", "t", "(", "x", ")", ")">>
\* println!("x");
MacroLine ==
    <<"p", "r", "i", "n", "t", "l", "n", "!", "(", "\"", "x", "\"", ")", ";">>

BlankLine == <<>>

SampleLines ==
    {BlankLine, LetLine, ReassignLine, LoopLine, ConsoleLine, IndentedLine,
     FormatLine, PrintLine, TabbedLine, MacroLine}

\* Array.prototype.join('\n')
RECURSIVE Join(_)
Join(ls) ==
    IF Len(ls) = 0 THEN <<>>
    ELSE IF Len(ls) = 1 THEN ls[1]
    ELSE ls[1] \o <<NL>> \o Join(Tail(ls))

\* every text of 1..MaxLines sample lines ("" is the text of one blank line)
SampleTexts ==
    UNION {{Join(ls) : ls \in [1..n -> SampleLines]} : n \in 1..MaxLines}

LanguageIds == {"javascript", "typescript", "python", "rust", "plaintext"}

\* configured thresholds: unset, below 0, 0, equal to a confidence, between two
\* confidences, 1, above 1
MinConfidenceSettings == {-50, 0, 80, 85, 100, 150}

\* enabledRules settings: a rule switched off
EnabledRulesSettings ==
    {[r \in {"use-const"} |-> FALSE], [r \in {"no-print-debug"} |-> FALSE]}

Configurations ==
    {[k \in {} |-> 0]}
    \cup {[k \in {"minimumConfidence"} |-> m] : m \in MinConfidenceSettings}
    \cup {[k \in {"enabledRules"} |-> e] : e \in EnabledRulesSettings}
    \cup {[minimumConfidence |-> m, enabledRules |-> e] :
              m \in MinConfidenceSettings, e \in EnabledRulesSettings}

TextDocuments == [languageId : LanguageIds, text : SampleTexts]

\* ------------------------------------------------------------- the extension

Uris == {"app.js", "tool.py", "notes.txt"}

LanguageOf(uri) ==
    CASE uri = "app.js" -> "javascript"
      [] uri = "tool.py" -> "python"
      [] uri = "notes.txt" -> "plaintext"

\* vscode.workspace.findFiles('**/*.{js,ts,py,rs}', '**/node_modules/**')
FoundFiles == <<"app.js", "tool.py">>

\* the texts a document of the workspace may hold
WorkspaceTexts == {Join(<<LetLine, ConsoleLine>>), Join(<<FormatLine, PrintLine>>)}

\* the configurations the workspace may be given
WorkspaceConfigurations ==
    {[k \in {} |-> 0], [k \in {"minimumConfidence"} |-> 85]}

getSeverity(severity) ==
    CASE severity = "Error" -> "Error"
      [] severity = "Warning" -> "Warning"
      [] severity = "Info" -> "Information"
      [] OTHER -> "Hint"

\* TextDocument.lineCount and TextDocument.lineAt(line).text, line 0-based
LineCount(doc) == Len(Split(doc.text, NL))
LineAtText(doc, line) == Split(doc.text, NL)[line + 1]

Max(a, b) == IF a >= b THEN a ELSE b

\* the diagnostic's line taken as line_number, without the - 1
DiagnosticLineOneBased(opt) == Max(0, opt.line_number)
\* const line = Math.max(0, opt.line_number - 1)
DiagnosticLine(opt) == Max(0, opt.line_number - 1)

\* document.lineAt(line) throws for a line the document does not have
LineAtThrows(doc, opts) ==
    \E k \in 1..Len(opts) : DiagnosticLine(opts[k]) >= LineCount(doc)

\* optimizations.map(opt => new vscode.Diagnostic(...))
Diagnostics(doc, opts) ==
    [k \in 1..Len(opts) |->
        LET line == DiagnosticLine(opts[k])
        IN  [range |-> <<line, 0, line, Len(LineAtText(doc, line))>>,
             message |-> <<opts[k].explanation, opts[k].confidence>>,
             severity |-> getSeverity(opts[k].severity),
             code |-> opts[k].rule_name,
             source |-> "Code Optimizer"]]

\* Map.set: m with key k bound to v
MapSet(m, k, v) == [x \in (DOMAIN m) \cup {k} |-> IF x = k THEN v ELSE m[x]]

\* analyzeDocument up to its await: simulateRustAnalysis has run on the
\* document and the configuration as they are now
Suspended(uri, caller) ==
    [uri |-> uri,
     optimizations |-> simulateRustAnalysis(documents[uri], config),
     caller |-> caller]

\* a listener or command calls analyzeDocument(document) on a supported language
StartAnalysis(uri, caller) ==
    /\ microtasks' = Append(microtasks, Suspended(uri, caller))
    /\ latest' = [latest EXCEPT ![uri] = <<Suspended(uri, caller).optimizations>>]

Init ==
    /\ documents = [u \in Uris |->
                      [languageId |-> LanguageOf(u),
                       text |-> IF u = "tool.py"
                                THEN Join(<<FormatLine, PrintLine>>)
                                ELSE Join(<<LetLine, ConsoleLine>>)]]
    /\ config = [k \in {} |-> 0]
    /\ diagnosticCollection = [u \in {} |-> <<>>]
    /\ microtasks = <<>>
    /\ returned = [u \in {} |-> 0]
    /\ latest = [u \in Uris |-> <<>>]
    /\ workspaceState = "idle"
    /\ files = <<>>
    /\ totalOptimizations = 0
    /\ document = [languageId |-> "plaintext", text |-> <<>>]
    /\ optimizations = <<>>
    /\ reported = 0
    /\ phase = "idle"

\* onSaveListener / onOpenListener: analyse a document of a supported language
Listener(uri) ==
    /\ Len(microtasks) < MaxPending
    /\ isSupported(documents[uri].languageId)
    /\ StartAnalysis(uri, "event")
    /\ UNCHANGED <<analysisVars, config, documents, diagnosticCollection, returned,
                   workspaceState, files, totalOptimizations>>

onDidSaveTextDocument == \E uri \in Uris : Listener(uri)

onDidOpenTextDocument == \E uri \in Uris : Listener(uri)

\* codeOptimizer.analyzeFile with an active editor showing uri
analyzeFileCommand ==
    \E uri \in Uris :
        /\ Len(microtasks) < MaxPending
        /\ IF isSupported(documents[uri].languageId)
           THEN /\ StartAnalysis(uri, "event")
                /\ UNCHANGED returned
           ELSE /\ returned' = MapSet(returned, uri, 0)
                /\ UNCHANGED <<microtasks, latest>>
        /\ UNCHANGED <<analysisVars, config, documents, diagnosticCollection,
                       workspaceState, files, totalOptimizations>>

\* codeOptimizer.analyzeWorkspace, to the end of findFiles
analyzeWorkspaceCommand ==
    /\ workspaceState = "idle"
    /\ workspaceState' = "running"
    /\ files' = FoundFiles
    /\ totalOptimizations' = 0
    /\ UNCHANGED <<analysisVars, config, documents, diagnosticCollection, microtasks,
                   returned, latest>>

\* the loop opens the next file and calls analyzeDocument on it; when the file
\* was not open yet, onOpenListener has analysed it first
analyzeWorkspaceNext ==
    /\ workspaceState = "running"
    /\ files # <<>>
    /\ \E opens \in BOOLEAN :
        LET uri == Head(files)
            first == IF opens THEN <<Suspended(uri, "event")>> ELSE <<>>
        IN  /\ Len(microtasks) + Len(first) < MaxPending
            /\ microtasks' = microtasks \o first \o <<Suspended(uri, "workspace")>>
            /\ latest' = [latest EXCEPT
                            ![uri] = <<Suspended(uri, "workspace").optimizations>>]
    /\ workspaceState' = "awaiting"
    /\ UNCHANGED <<analysisVars, config, documents, diagnosticCollection, returned,
                   files, totalOptimizations>>

\* the loop has no file left
analyzeWorkspaceDone ==
    /\ workspaceState = "running"
    /\ files = <<>>
    /\ workspaceState' = "idle"
    /\ UNCHANGED <<analysisVars, config, documents, diagnosticCollection, microtasks,
                   returned, latest, files, totalOptimizations>>

\* analyzeDocument from its await on: the oldest suspended call resumes
analyzeDocument ==
    /\ microtasks # <<>>
    /\ LET task == Head(microtasks)
           doc == documents[task.uri]
           threw == LineAtThrows(doc, task.optimizations)
           result == IF threw THEN 0 ELSE Len(task.optimizations)
       IN  /\ microtasks' = Tail(microtasks)
           /\ diagnosticCollection' =
                IF threw THEN diagnosticCollection
                ELSE MapSet(diagnosticCollection, task.uri,
                            Diagnostics(doc, task.optimizations))
           /\ returned' = MapSet(returned, task.uri, result)
           /\ IF task.caller = "workspace"
              THEN /\ totalOptimizations' = totalOptimizations + result
                   /\ files' = Tail(files)
                   /\ workspaceState' = "running"
              ELSE UNCHANGED <<totalOptimizations, files, workspaceState>>
    /\ UNCHANGED <<analysisVars, config, documents, latest>>

\* The user edits a document. Edits and settings reach the extension host as
\* events of their own, which run only once the suspended calls have resumed.
EditDocument ==
    /\ microtasks = <<>>
    /\ \E uri \in Uris, text \in WorkspaceTexts :
        /\ text # documents[uri].text
        /\ documents' = [documents EXCEPT ![uri].text = text]
    /\ UNCHANGED <<analysisVars, config, diagnosticCollection, microtasks, returned,
                   latest, workspaceState, files, totalOptimizations>>

\* The user changes the settings.
ChangeConfiguration ==
    /\ microtasks = <<>>
    /\ \E c \in WorkspaceConfigurations :
        /\ c # config
        /\ config' = c
    /\ UNCHANGED <<analysisVars, documents, diagnosticCollection, microtasks, returned,
                   latest, workspaceState, files, totalOptimizations>>

Next ==
    \/ onDidSaveTextDocument
    \/ onDidOpenTextDocument
    \/ analyzeFileCommand
    \/ analyzeWorkspaceCommand
    \/ analyzeWorkspaceNext
    \/ analyzeWorkspaceDone
    \/ analyzeDocument
    \/ EditDocument
    \/ ChangeConfiguration

Spec == Init /\ [][Next]_vars

\* ------------------------------------------------- analysis of one document

InitAnalysis ==
    /\ document \in TextDocuments
    /\ config \in Configurations
    /\ optimizations = <<>>
    /\ reported = 0
    /\ phase = "idle"
    /\ documents = [u \in Uris |-> [languageId |-> LanguageOf(u), text |-> <<>>]]
    /\ diagnosticCollection = [u \in {} |-> <<>>]
    /\ microtasks = <<>>
    /\ returned = [u \in {} |-> 0]
    /\ latest = [u \in Uris |-> <<>>]
    /\ workspaceState = "idle"
    /\ files = <<>>
    /\ totalOptimizations = 0

\* one analyzeDocument call run to completion on the document
Analyze ==
    /\ phase = "idle"
    /\ optimizations' = simulateRustAnalysis(document, config)
    /\ reported' = IF isSupported(document.languageId)
                   THEN Len(optimizations') ELSE 0
    /\ phase' = "analyzed"
    /\ UNCHANGED <<document, config, extensionVars>>

NextAnalysis == Analyze

SpecAnalysis == InitAnalysis /\ [][NextAnalysis]_vars

\* ============================================================== the claims

Analyzed == phase = "analyzed"

\* the positions of the newlines of a text
NewlinePositions(text) == {k \in 1..Len(text) : text[k] = NL}

\* the number of lines of a text, as an editor counts them
NumberOfLines(text) == Cardinality(NewlinePositions(text)) + 1

\* line n of a text: what lies between its (n-1)-th and its n-th newline
TextOfLine(text, n) ==
    LET nl == NewlinePositions(text)
        nth(m) == CHOOSE k \in nl : Cardinality({j \in nl : j <= k}) = m
        first == IF n = 1 THEN 1 ELSE nth(n - 1) + 1
        last == IF n = Cardinality(nl) + 1 THEN Len(text) ELSE nth(n) - 1
    IN  SubSeq(text, first, last)

\* t is s without its leading and trailing whitespace
IsTrimOf(t, s) ==
    \E i \in 1..(Len(s) + 1), j \in 0..Len(s) :
        /\ t = SubSeq(s, i, j)
        /\ \A k \in 1..(i - 1) : s[k] \in WhiteSpace
        /\ \A k \in (j + 1)..Len(s) : s[k] \in WhiteSpace
        /\ t # <<>> => (t[1] \notin WhiteSpace /\ t[Len(t)] \notin WhiteSpace)

\* what a suggestion list says, as <<line, rule, confidence>> triples
Summary(opts) ==
    [k \in 1..Len(opts) |->
        <<opts[k].line_number, opts[k].rule_name, opts[k].confidence>>]

ScenarioAText == Join(<<LetLine, ConsoleLine>>)
ScenarioCText == Join(<<FormatLine, PrintLine>>)

DefaultConfiguration == DOMAIN config = {}

\* the threshold in force: the configured one, 0.6 when none is configured
Threshold ==
    IF "minimumConfidence" \in DOMAIN config THEN config["minimumConfidence"] ELSE 60

\* the rule is switched off by the configuration's enabledRules
Disabled(r) ==
    /\ "enabledRules" \in DOMAIN config
    /\ r \in DOMAIN config["enabledRules"]
    /\ config["enabledRules"][r] = FALSE

\* C1: disable-implies-absence. If enabledRules maps a rule id to false, the
\* returned list holds no suggestion of that rule; with use-const disabled,
\* Scenario A's text yields only the no-console suggestion.
DisableImpliesAbsence ==
    Analyzed =>
        /\ \A r \in RuleIds : Disabled(r) =>
              \A k \in 1..Len(optimizations) : optimizations[k].rule_name # r
        /\ (/\ Disabled("use-const")
            /\ document.languageId = "javascript"
            /\ document.text = ScenarioAText
            /\ Threshold <= 80)
           => Summary(optimizations) = <<<<2, "no-console", 90>>>>

\* C2: threshold filtering is exact. The returned list is the candidates whose
\* confidence is at least the threshold, in their original order: a candidate
\* at the threshold is kept, one below it is dropped; at 0.85 Scenario A's
\* use-const (0.8) is dropped and its no-console (0.9) kept.
ThresholdFilteringExact ==
    Analyzed =>
        LET c == Candidates(document)
            kept == {k \in 1..Len(c) : c[k].confidence >= Threshold}
            nth(j) == CHOOSE k \in kept : Cardinality({i \in kept : i <= k}) = j
        IN  /\ Len(optimizations) = Cardinality(kept)
            /\ \A j \in 1..Len(optimizations) : optimizations[j] = c[nth(j)]
            /\ (/\ document.languageId = "javascript"
                /\ document.text = ScenarioAText
                /\ Threshold = 85)
               => Summary(optimizations) = <<<<2, "no-console", 90>>>>

\* Python at threshold 0.8: no-print-debug (0.8, equal) kept, use-f-strings
\* (0.7, below) dropped
ThresholdFilteringWitness ==
    /\ Analyzed
    /\ document.languageId = "python"
    /\ document.text = ScenarioCText
    /\ Threshold = 80
    /\ Len(Candidates(document)) = 2
    /\ Summary(optimizations) = <<<<2, "no-print-debug", 80>>>>

\* the place of a rule in its language's registration order
RuleRank(r) ==
    CASE r = "use-const" -> 1
      [] r = "no-console" -> 2
      [] r = "use-f-strings" -> 1
      [] r = "no-print-debug" -> 2

\* C3: output order. The returned suggestions are sorted by line number
\* ascending, same-line suggestions are in rule registration order, and no two
\* share both line number and rule id (the order is strict).
OutputOrder ==
    Analyzed =>
        \A j, k \in 1..Len(optimizations) : j < k =>
            \/ optimizations[j].line_number < optimizations[k].line_number
            \/ /\ optimizations[j].line_number = optimizations[k].line_number
               /\ RuleRank(optimizations[j].rule_name)
                    < RuleRank(optimizations[k].rule_name)

\* two suggestions on line 1 and one on line 2
OutputOrderWitness ==
    /\ Analyzed
    /\ document.text = Join(<<IndentedLine, ConsoleLine>>)
    /\ Summary(optimizations) =
         <<<<1, "use-const", 80>>, <<1, "no-console", 90>>, <<2, "no-console", 90>>>>

\* C4: line fidelity. Every returned suggestion's line_number is between 1 and
\* the number of lines of the text, blank lines counted, and its original_code
\* is that line of the text with leading and trailing whitespace trimmed.
LineFidelity ==
    Analyzed =>
        \A k \in 1..Len(optimizations) :
            /\ optimizations[k].line_number \in 1..NumberOfLines(document.text)
            /\ IsTrimOf(optimizations[k].original_code,
                        TextOfLine(document.text, optimizations[k].line_number))

\* a blank first line, then an indented line that both JavaScript rules match
LineFidelityWitness ==
    /\ Analyzed
    /\ document.text = Join(<<BlankLine, IndentedLine>>)
    /\ Len(optimizations) = 2
    /\ optimizations[1].line_number = 2
    /\ optimizations[1].original_code # IndentedLine

\* the rules applied to a language
RulesOf(languageId) ==
    IF languageId \in {"javascript", "typescript"} THEN {"use-const", "no-console"}
    ELSE IF languageId = "python" THEN {"use-f-strings", "no-print-debug"}
    ELSE {}

\* the rule's pattern occurs on the line
PatternOccurs(r, line) ==
    CASE r = "use-const" ->
            /\ Includes(line, LetPattern)
            /\ Includes(line, EqualsPattern)
            /\ ~Includes(line, LetIPattern)
      [] r = "no-console" -> Includes(line, ConsoleLogPattern)
      [] r = "use-f-strings" -> Includes(line, FormatPattern)
      [] r = "no-print-debug" -> Includes(line, PrintPattern)

FixedConfidence(r) ==
    CASE r = "use-const" -> 80
      [] r = "no-console" -> 90
      [] r = "use-f-strings" -> 70
      [] r = "no-print-debug" -> 80

UnsupportedLanguagePurity ==
    (Analyzed
        /\ document.languageId \notin {"javascript", "typescript", "python", "rust"})
    => (optimizations = <<>> /\ reported = 0)

\* Scenario A's text analysed as plain text, threshold 0
UnsupportedLanguageWitness ==
    /\ Analyzed
    /\ document.languageId = "plaintext"
    /\ document.text = ScenarioAText
    /\ Threshold = 0

\* the name bound by the first let of a line
DeclaredName(line) ==
    LET i == IndexOf(line, LetPattern)
        rest == SubSeq(line, i + Len(LetPattern), Len(line))
        stops == {k \in 1..Len(rest) : rest[k] \in {" ", "=", ";", ","}}
        stop == IF stops = {} THEN Len(rest) + 1
                ELSE CHOOSE k \in stops : \A j \in stops : k <= j
    IN  SubSeq(rest, 1, stop - 1)

\* the line is an assignment statement  v = ...
AssignsTo(line, v) ==
    LET t == Trim(line)
        rest == TrimStart(SubSeq(t, Len(v) + 1, Len(t)))
    IN  /\ v # <<>>
        /\ Len(t) > Len(v)
        /\ SubSeq(t, 1, Len(v)) = v
        /\ rest # <<>>
        /\ rest[1] = "="
        /\ (Len(rest) >= 2 => rest[2] # "=")

\* C7: use-const flags a let binding only when the binding is never reassigned
\* in its scope: no use-const suggestion for a line  let v = ...  when another
\* line assigns to v again, and none for a loop-counter declaration (let i).
UseConstOnlyIfNeverReassigned ==
    (Analyzed /\ document.languageId \in {"javascript", "typescript"}) =>
        \A k \in 1..Len(optimizations) :
            optimizations[k].rule_name = "use-const" =>
                LET n == optimizations[k].line_number
                    line == TextOfLine(document.text, n)
                IN  /\ ~Includes(line, LetIPattern)
                    /\ \A m \in 1..NumberOfLines(document.text) :
                          m # n => ~AssignsTo(TextOfLine(document.text, m),
                                              DeclaredName(line))

PrintlnPattern == <<"p", "r", "i", "n", "t", "l", "n", "!", "(">>

\* C8: Rust rule set. Under the default configuration every line of a Rust
\* document that invokes a debug-print macro yields a suggestion (to remove it).
RustRuleSet ==
    (Analyzed /\ DefaultConfiguration /\ document.languageId = "rust") =>
        \A n \in 1..NumberOfLines(document.text) :
            Includes(TextOfLine(document.text, n), PrintlnPattern) =>
                \E k \in 1..Len(optimizations) : optimizations[k].line_number = n

Clamp(t) == IF t < 0 THEN 0 ELSE IF t > 100 THEN 100 ELSE t

\* C9: out-of-range thresholds are clamped without failure. With a configured
\* minimum_confidence outside [0,1] the analysis returns the list it returns
\* with the threshold clamped to [0,1].
OutOfRangeThresholdClamped ==
    (Analyzed /\ Threshold \notin 0..100) =>
        optimizations =
            simulateRustAnalysis(document,
                [config EXCEPT !["minimumConfidence"] = Clamp(@)])

\* a threshold of 1.5 drops every candidate of a text that has some
OutOfRangeThresholdWitness ==
    /\ Analyzed
    /\ Threshold = 150
    /\ Candidates(document) # <<>>
    /\ optimizations = <<>>

\* an analyzeDocument call on the document is suspended at its await
PendingFor(uri) == \E k \in 1..Len(microtasks) : microtasks[k].uri = uri

\* C10: diagnostics track the latest analysis. Once the analyzeDocument calls
\* on a supported-language document have run, the diagnostics stored for it are
\* those of the most recently started analysis: one per returned suggestion, on
\* 0-based line line_number - 1, with the rule id as code, and the call returned
\* that number of suggestions. A call on an unsupported-language document
\* returns 0 and the collection holds nothing for that document.
DiagnosticsTrackLatest ==
    \A uri \in Uris :
        IF documents[uri].languageId \in {"javascript", "typescript", "python", "rust"}
        THEN (latest[uri] # <<>> /\ ~PendingFor(uri)) =>
                LET opts == latest[uri][1]
                IN  /\ uri \in DOMAIN diagnosticCollection
                    /\ uri \in DOMAIN returned
                    /\ returned[uri] = Len(opts)
                    /\ Len(diagnosticCollection[uri]) = Len(opts)
                    /\ \A k \in 1..Len(opts) :
                          /\ diagnosticCollection[uri][k].range[1]
                                = opts[k].line_number - 1
                          /\ diagnosticCollection[uri][k].range[3]
                                = opts[k].line_number - 1
                          /\ diagnosticCollection[uri][k].code = opts[k].rule_name
        ELSE /\ uri \notin DOMAIN diagnosticCollection
             /\ uri \in DOMAIN returned => returned[uri] = 0

\* app.js analysed again after the threshold was raised to 0.85 (one diagnostic
\* where the first analysis stored two), tool.py analysed, notes.txt refused
DiagnosticsTrackLatestWitness ==
    /\ microtasks = <<>>
    /\ config = [k \in {"minimumConfidence"} |-> 85]
    /\ "app.js" \in DOMAIN diagnosticCollection
    /\ Len(diagnosticCollection["app.js"]) = 1
    /\ diagnosticCollection["app.js"][1].range[1] = 1
    /\ "tool.py" \in DOMAIN diagnosticCollection
    /\ Len(diagnosticCollection["tool.py"]) = 2
    /\ "notes.txt" \in DOMAIN returned
    /\ returned["notes.txt"] = 0

=============================================================================
